---------------------------- MODULE Spec2Model ----------------------------
(***************************************************************************)
(* Feature engineering and alignment pipeline of the auction-bid           *)
(* forecaster: window generation (range(-15, dia_remate)), categorical     *)
(* normalisation, one-hot encoding, numeric coercion, the training-mode    *)
(* builder (preprocesar_datos), the inference-mode aligner                 *)
(* (preprocesar_datos_inferencia) and the SQL query generators.            *)
(*                                                                         *)
(* A DataFrame is [columns: sequence of names, rows: sequence of rows],    *)
(* a row being a sequence of cells parallel to columns (column names may   *)
(* repeat, as in pandas).  A cell is [k, s, n]: k = "str" with the text s  *)
(* (a sequence of one-character strings), k = "num" with the number n, or  *)
(* k = "na" (NaN / None).  Floats are modelled by integers (0.0 is 0).     *)
(***************************************************************************)
EXTENDS Integers, Sequences, FiniteSets, TLC

VARIABLES
    modelo_file,   \* the persisted bundle at ruta_modelo
    op,            \* "idle", "llamado" (a pipeline was called), "train" or "infer" (it ran)
    dia_remate,    \* the cutoff day of the last run
    raw,           \* the record set as the warehouse returned it
    data,          \* the caller's DataFrame after the run (mutated in place)
    data_encoded,  \* the encoded, coerced frame of the last run
    X,             \* the feature matrix of the last run (X or X')
    y,             \* the target vector of the last training run
    error,         \* the exception the last run surfaced, or "none"
    query,         \* the last generated SQL query (its variable parts)
    fallo,         \* the collaborator call that raised in the run, or "none"
    pasos,         \* the calls the pipeline of the run has made, in order
    test,          \* the test flag of the inference run
    subir_sql,     \* the subir_sql flag of the inference run
    resultados,    \* data_raw with the column OFERTAS_PREDICHAS_RF, as returned
    ruta_excel,    \* the spreadsheet the run wrote, or NoExcel
    df_sql,        \* the frame the run handed to the upload, or EmptyFrame
    tabla          \* the rows of dbo.predicciones_ofertas_subastas

vars == <<modelo_file, op, dia_remate, raw, data, data_encoded, X, y, error, query,
          fallo, pasos, test, subir_sql, resultados, ruta_excel, df_sql, tabla>>

---------------------------------------------------------------------------
(* Bounds of the model *)

\* cutoff days of the pipeline runs: EarliestDia .. EarliestDia + MaxDiaSpan
MaxDiaSpan == 3
\* rows of a record set: 1 .. MaxRows
MaxRows == 2
\* cutoff days of the query generators: EarliestDia - 1 .. EarliestDia - 1 + MaxQuerySpan
MaxQuerySpan == 20
\* auction ids passed to the query generators: 1 .. MaxRemid
MaxRemid == 3

---------------------------------------------------------------------------
(* Sequences *)

In(x, s) == \E i \in DOMAIN s : s[i] = x

\* [e for e in s if e in keep]
Filter(s, keep) == SelectSeq(s, LAMBDA e : In(e, keep))

\* [e for e in s if e not in drop]
FilterOut(s, drop) == SelectSeq(s, LAMBDA e : ~In(e, drop))

RECURSIVE Flatten(_)
Flatten(ss) == IF ss = <<>> THEN <<>> ELSE Head(ss) \o Flatten(Tail(ss))

NoDuplicates(s) == \A i, j \in DOMAIN s : s[i] = s[j] => i = j

Abs(d) == IF d < 0 THEN -d ELSE d

---------------------------------------------------------------------------
(* WindowSpec: range(-15, dia_remate) and the per-offset column names *)

EarliestDia == -15

RECURSIVE range(_, _)
\* Python's range(start, stop): start, start + 1, ... while below stop
range(start, stop) ==
    IF start < stop THEN <<start>> \o range(start + 1, stop) ELSE <<>>

dias_mut_inclusive(c) == range(EarliestDia, c + 1)

\* dias = range(-15, dia_remate)
dias(c) == range(EarliestDia, c)

\* f"{prefijo}{abs(d)}"
col_name(prefijo, d) == prefijo \o ToString(Abs(d))

\* [f"{prefijo}{abs(d)}" for d in dias]
cols_serie(prefijo, c) ==
    LET ds == dias(c) IN [i \in DOMAIN ds |-> col_name(prefijo, ds[i])]

series_prefijos == <<"OFERTAS", "CAV", "INSP", "MI", "VT", "VU">>

\* cols_ofertas + cols_cav + cols_insp + cols_mi + cols_vt + cols_vu
series_cols(c) ==
    Flatten([p \in DOMAIN series_prefijos |-> cols_serie(series_prefijos[p], c)])

kpi_actual ==
    <<"ACUM_DESCARGASCAV", "ACUM_DESCARGASINSPTOTALES", "ACUM_MI",
      "ACUM_VISITAS_TOTALES", "ACUM_VISITAS_UNICAS", "ACUM_OFERTAS">>

base_numeric ==
    <<"AÑO", "KILOMETRAJE", "MINIMO", "MONTOMULTAS", "VPCA",
      "CANT_SIMILARES_EN_REMATE", "HHI_MARCA_REMATE", "CONCENTRACION_TIPO_VPCA",
      "CANT_LOTES_EN_REMATE", "ANTIGÜEDAD_VEHICULO", "PROYECCION_BI">>

\* num_vars = base_numeric + kpi_actual + series_cols
num_vars(c) == base_numeric \o kpi_actual \o series_cols(c)

categorical_vars ==
    <<"TIPO", "MARCA", "MODELO", "COMB", "COLOR", "CILINDESCRIPCION",
      "TRACCIONDESCRIPCION", "UNIDADNEGOCIODESCRIPCION", "TRANSMISIONDESCRIPCION">>

target_col == "OFERTAS"

id_cols == <<"REMID", "PATENTE", "LOTEID">>

---------------------------------------------------------------------------
(* Cells and text *)

StrCell(s) == [k |-> "str", s |-> s, n |-> 0]
NumCell(n) == [k |-> "num", s |-> <<>>, n |-> n]
NaCell == [k |-> "na", s |-> <<>>, n |-> 0]
\* float('inf') (sign 1) and float('-inf') (sign -1)
InfCell(sign) == [k |-> "inf", s |-> <<>>, n |-> sign]
\* pd.NA, the missing value of the nullable integer type Int64
NACell == [k |-> "NA", s |-> <<>>, n |-> 0]
\* None
NoneCell == [k |-> "None", s |-> <<>>, n |-> 0]

OTRO == <<"O", "T", "R", "O">>

Digit == <<"0", "1", "2", "3", "4", "5", "6", "7", "8", "9">>

\* code points of the characters the record sets use (Python orders text by them)
ord(ch) ==
    CASE ch = " " -> 32
      [] ch = "0" -> 48 [] ch = "1" -> 49 [] ch = "2" -> 50 [] ch = "3" -> 51
      [] ch = "4" -> 52 [] ch = "5" -> 53 [] ch = "6" -> 54 [] ch = "7" -> 55
      [] ch = "8" -> 56 [] ch = "9" -> 57
      [] ch = "A" -> 65 [] ch = "B" -> 66 [] ch = "O" -> 79 [] ch = "R" -> 82
      [] ch = "T" -> 84 [] ch = "a" -> 97 [] ch = "n" -> 110 [] ch = "x" -> 120

IsDigit(ch) == ord(ch) >= 48 /\ ord(ch) <= 57

RECURSIVE str_of_nat(_)
\* str(n) of a non-negative integer
str_of_nat(n) ==
    IF n < 10 THEN <<Digit[n + 1]>>
    ELSE str_of_nat(n \div 10) \o <<Digit[(n % 10) + 1]>>

RECURSIVE lstrip(_)
lstrip(s) == IF s # <<>> /\ Head(s) = " " THEN lstrip(Tail(s)) ELSE s

RECURSIVE rstrip(_)
rstrip(s) ==
    IF s # <<>> /\ s[Len(s)] = " " THEN rstrip(SubSeq(s, 1, Len(s) - 1)) ELSE s

\* str.strip()
strip(s) == rstrip(lstrip(s))

\* Series.astype(str) on one value: NaN becomes the text "nan"
astype_str(cell) ==
    CASE cell.k = "str" -> cell.s
      [] cell.k = "num" -> str_of_nat(cell.n)
      [] cell.k = "na" -> <<"n", "a", "n">>

\* .replace('', 'OTRO'): only a value that is exactly the empty string
replace_empty(s) == IF s = <<>> THEN OTRO ELSE s

normalizar_mut_replace_antes(cell) == StrCell(strip(replace_empty(astype_str(cell))))

normalizar_mut_sin_strip(cell) == StrCell(replace_empty(astype_str(cell)))

\* data[col].astype(str).str.strip().replace('', 'OTRO') on one value
normalizar_valor(cell) == StrCell(replace_empty(strip(astype_str(cell))))

RECURSIVE Text(_)
\* the text as one string, for building column names
Text(s) == IF s = <<>> THEN "" ELSE Head(s) \o Text(Tail(s))

RECURSIVE text_lt(_, _)
\* a < b for Python strings: lexicographic by code point
text_lt(a, b) ==
    IF b = <<>> THEN FALSE
    ELSE IF a = <<>> THEN TRUE
    ELSE IF ord(Head(a)) < ord(Head(b)) THEN TRUE
    ELSE IF ord(Head(a)) > ord(Head(b)) THEN FALSE
    ELSE text_lt(Tail(a), Tail(b))

RECURSIVE nat_of_digits(_, _)
nat_of_digits(s, acc) ==
    IF s = <<>> THEN acc
    ELSE nat_of_digits(Tail(s), 10 * acc + (ord(Head(s)) - 48))

\* pd.to_numeric(value, errors="coerce"): a number, or NaN when not convertible
to_numeric(cell) ==
    CASE cell.k \in {"num", "inf"} -> cell
      [] cell.k = "na" -> NaCell
      [] cell.k = "str" ->
            LET t == strip(cell.s)
            IN  IF t # <<>> /\ \A i \in DOMAIN t : IsDigit(t[i])
                THEN NumCell(nat_of_digits(t, 0))
                ELSE NaCell

\* .fillna(0.0)
fillna(cell) == IF cell.k = "na" THEN NumCell(0) ELSE cell

coerce_mut_sin_fillna(cell) == to_numeric(cell)

\* pd.to_numeric(..., errors="coerce").fillna(0.0) on one value
coerce(cell) == fillna(to_numeric(cell))

---------------------------------------------------------------------------
(* DataFrames *)

Frame(cols, rows) == [columns |-> cols, rows |-> rows]

EmptyFrame == Frame(<<>>, <<>>)

NRows(df) == Len(df.rows)

\* positions of the columns labelled name, in column order
Positions(df, name) ==
    SelectSeq([i \in DOMAIN df.columns |-> i], LAMBDA i : df.columns[i] = name)

\* the frame made of the columns at the given positions, in that order
TakePositions(df, ps) ==
    Frame([j \in DOMAIN ps |-> df.columns[ps[j]]],
          [r \in DOMAIN df.rows |-> [j \in DOMAIN ps |-> df.rows[r][ps[j]]]])

\* df[col] = constant for a column not yet present: appended as the last column
AppendColumn(df, name, cell) ==
    Frame(Append(df.columns, name),
          [r \in DOMAIN df.rows |-> Append(df.rows[r], cell)])

\* df[keys] : each key selects every column carrying that label
SelectColumns(df, keys) ==
    TakePositions(df, Flatten([j \in DOMAIN keys |-> Positions(df, keys[j])]))

\* df.drop(columns=names, errors="ignore"): every column carrying a dropped label goes
DropColumns(df, names) ==
    TakePositions(df,
        SelectSeq([i \in DOMAIN df.columns |-> i],
                  LAMBDA i : ~In(df.columns[i], names)))

\* the value of the (first) column labelled name in row r
At(df, r, name) == df.rows[r][Positions(df, name)[1]]

---------------------------------------------------------------------------
(* CategoricalNormalizer: normalisation and one-hot expansion *)

\* one turn of the loop "for col in categorical_vars"
normalizar_col(df, col) ==
    IF In(col, df.columns)
    THEN \* data[col] = ... : the column is rewritten in place
         Frame(df.columns,
               [r \in DOMAIN df.rows |->
                   [i \in DOMAIN df.columns |->
                       IF df.columns[i] = col
                       THEN normalizar_valor(df.rows[r][i])
                       ELSE df.rows[r][i]]])
    ELSE AppendColumn(df, col, StrCell(OTRO))

RECURSIVE normalizar_cols(_, _)
normalizar_cols(df, cols) ==
    IF cols = <<>> THEN df
    ELSE normalizar_cols(normalizar_col(df, Head(cols)), Tail(cols))

\* the loop over categorical_vars, writing into the caller's frame
normalizar_categoricas(df) == normalizar_cols(df, categorical_vars)

RECURSIVE sorted(_)
\* the texts of a set in increasing order
sorted(S) ==
    IF S = {} THEN <<>>
    ELSE LET m == CHOOSE a \in S : \A b \in S \ {a} : text_lt(a, b)
         IN  <<m>> \o sorted(S \ {m})

\* the category labels of a column, sorted (the levels get_dummies factorizes)
levels(df, col) ==
    LET p == Positions(df, col)[1] IN sorted({df.rows[r][p].s : r \in DOMAIN df.rows})

dummy_levels_mut_keep_first(df, col) == levels(df, col)

\* drop_first=True: the first level gets no indicator
dummy_levels(df, col) ==
    LET ls == levels(df, col) IN IF ls = <<>> THEN <<>> ELSE Tail(ls)

\* f"{prefix}_{level}"
dummy_name(col, level) == col \o "_" \o Text(level)

\* the indicator columns of all encoded attributes: [col, level] in emitted order
dummy_specs(df, cols) ==
    Flatten([a \in DOMAIN cols |->
                LET ls == dummy_levels(df, cols[a])
                IN  [l \in DOMAIN ls |->
                        [col |-> cols[a], pos |-> Positions(df, cols[a])[1], level |-> ls[l]]]])

\* pd.get_dummies(data, columns=cols, drop_first=True)
get_dummies(df, cols) ==
    LET rest == DropColumns(df, cols)
        specs == dummy_specs(df, cols)
    IN  Frame(rest.columns \o [j \in DOMAIN specs |-> dummy_name(specs[j].col, specs[j].level)],
              [r \in DOMAIN df.rows |->
                  rest.rows[r] \o
                  [j \in DOMAIN specs |->
                      NumCell(IF df.rows[r][specs[j].pos].s = specs[j].level THEN 1 ELSE 0)]])

---------------------------------------------------------------------------
(* NumericCoercer *)

\* the loop "for col in num_vars: if col in data_encoded.columns:
\*     data_encoded[col] = pd.to_numeric(data_encoded[col], errors="coerce").fillna(0.0)"
coerce_cols(df, cols) ==
    LET listed == [i \in DOMAIN df.columns |-> In(df.columns[i], cols)]
    IN  Frame(df.columns,
              [r \in DOMAIN df.rows |->
                  [i \in DOMAIN df.columns |->
                      IF listed[i] THEN coerce(df.rows[r][i]) ELSE df.rows[r][i]]])

\* the encoded frame after the numeric loop
encode(df, c) == coerce_cols(get_dummies(df, categorical_vars), num_vars(c))

---------------------------------------------------------------------------
(* FeatureMatrixBuilder: preprocesar_datos *)

target_ausente_mut_nunca(cols) == FALSE

\* if target_col not in data_encoded.columns: raise ValueError
target_ausente(cols) == ~In(target_col, cols)

\* one turn of "for c in candidate_features: if c not in X.columns: X[c] = 0.0"
forzar_col(df, col) == IF In(col, df.columns) THEN df ELSE AppendColumn(df, col, NumCell(0))

RECURSIVE forzar_cols(_, _)
forzar_cols(df, cols) ==
    IF cols = <<>> THEN df ELSE forzar_cols(forzar_col(df, Head(cols)), Tail(cols))

\* candidate_features = [c for c in base_numeric + kpi_actual + series_cols
\*                       if c in data_encoded.columns]
candidate_features(enc, c) == Filter(num_vars(c), enc.columns)

\* X = X[ordered_numeric + other_cols]
reordenar(df, cands) ==
    SelectColumns(df, Filter(cands, df.columns)
                      \o FilterOut(df.columns, Filter(cands, df.columns)))

construir_X_mut_sin_drop(enc, c) == reordenar(enc, candidate_features(enc, c))

\* the X of preprocesar_datos, from the encoded frame
construir_X(enc, c) ==
    LET cands == candidate_features(enc, c)
        to_drop == Filter(id_cols, enc.columns) \o <<target_col>>
        dropped == DropColumns(enc, Filter(to_drop, enc.columns))
    IN  reordenar(forzar_cols(dropped, cands), cands)

\* preprocesar_datos(data, dia_remate): what it returns or raises, and the
\* caller's frame as the categorical loop leaves it
preprocesar_datos(df, c) ==
    LET norm == normalizar_categoricas(df)
        enc == encode(norm, c)
    IN  IF target_ausente(enc.columns)
        THEN [error |-> "ValueError", data |-> norm, data_encoded |-> enc,
              X |-> EmptyFrame, y |-> <<>>]
        ELSE IF ~In(target_col, enc.columns)
        THEN \* data_encoded[target_col] on a missing label
             [error |-> "KeyError", data |-> norm, data_encoded |-> enc,
              X |-> EmptyFrame, y |-> <<>>]
        ELSE [error |-> "none", data |-> norm, data_encoded |-> enc,
              X |-> construir_X(enc, c),
              y |-> [r \in DOMAIN enc.rows |-> coerce(At(enc, r, target_col))]]

---------------------------------------------------------------------------
(* FeatureMatrixAligner: preprocesar_datos_inferencia *)

\* data_encoded.loc[:, ~data_encoded.columns.duplicated()]: first occurrences
quitar_duplicados(df) ==
    TakePositions(df,
        SelectSeq([i \in DOMAIN df.columns |-> i],
                  LAMBDA i : \A j \in 1..(i - 1) : df.columns[j] # df.columns[i]))

reindex_mut_union(df, cols) ==
    Frame(cols \o FilterOut(df.columns, cols),
          [r \in DOMAIN df.rows |->
              [j \in DOMAIN cols |->
                  IF In(cols[j], df.columns) THEN At(df, r, cols[j]) ELSE NumCell(0)]
              \o TakePositions(df,
                    SelectSeq([i \in DOMAIN df.columns |-> i],
                              LAMBDA i : ~In(df.columns[i], cols))).rows[r]])

reindex_mut_sin_fill(df, cols) ==
    Frame(cols,
          [r \in DOMAIN df.rows |->
              [j \in DOMAIN cols |->
                  IF In(cols[j], df.columns) THEN At(df, r, cols[j]) ELSE NaCell]])

\* data_encoded.reindex(columns=columnas_entrenamiento, fill_value=0.0)
reindex(df, cols) ==
    LET pos == [j \in DOMAIN cols |-> Positions(df, cols[j])]
    IN  Frame(cols,
              [r \in DOMAIN df.rows |->
                  [j \in DOMAIN cols |->
                      IF pos[j] # <<>> THEN df.rows[r][pos[j][1]] ELSE NumCell(0)]])

\* preprocesar_datos_inferencia(data, columnas_entrenamiento, dia_remate)
preprocesar_datos_inferencia(df, columnas_entrenamiento, c) ==
    LET norm == normalizar_categoricas(df)
        enc == encode(norm, c)
    IN  [error |-> "none", data |-> norm, data_encoded |-> enc,
         X |-> reindex(quitar_duplicados(enc), columnas_entrenamiento), y |-> <<>>]

---------------------------------------------------------------------------
(* Record sets of the runs *)

RowKinds == {1, 2, 3}

\* the value row kind has in column col
valor(kind, col) ==
    CASE col = "REMID" -> NumCell(1)
      [] col = "PATENTE" -> IF kind = 2 THEN StrCell(<<"B">>) ELSE StrCell(<<"A">>)
      [] col = "LOTEID" -> IF kind = 2 THEN NumCell(2) ELSE NumCell(1)
      [] col = "MARCA" ->
            IF kind = 1 THEN StrCell(<<"A">>)
            ELSE IF kind = 2 THEN StrCell(<<"B", " ">>)
            ELSE StrCell(<<" ">>)
      [] col = "COLOR" ->
            IF kind = 1 THEN StrCell(<<"B">>)
            ELSE IF kind = 2 THEN StrCell(<<>>)
            ELSE NaCell
      [] col = "KILOMETRAJE" ->
            IF kind = 1 THEN NumCell(5)
            ELSE IF kind = 2 THEN StrCell(<<>>)
            ELSE StrCell(<<" ", "7">>)
      [] col = "OFERTAS" ->
            IF kind = 1 THEN NumCell(3)
            ELSE IF kind = 2 THEN NaCell
            ELSE StrCell(<<"x">>)
      [] col = "MI15" -> IF kind = 2 THEN NaCell ELSE NumCell(1)
      [] col = "MI14" ->
            IF kind = 1 THEN NumCell(2)
            ELSE IF kind = 2 THEN NaCell
            ELSE StrCell(<<"x">>)
      [] col = "MARCA_B" -> NumCell(7)
      [] col = "MINIMO" ->
            IF kind = 1 THEN NumCell(5)
            ELSE IF kind = 2 THEN NaCell
            ELSE InfCell(1)

\* the column lists the record sets come with
Shapes ==
    << <<"REMID", "PATENTE", "LOTEID", "MARCA", "COLOR", "KILOMETRAJE",
         "OFERTAS", "MI15", "MI14">>,
       <<"REMID", "PATENTE", "LOTEID", "MARCA", "COLOR", "KILOMETRAJE",
         "MI15", "MI14">>,
       <<"MARCA", "OFERTAS">>,
       <<"REMID", "MARCA_B", "MARCA", "KILOMETRAJE", "OFERTAS">>,
       <<"MARCA_B", "MARCA", "COLOR", "MI14">> >>

RawFrames ==
    UNION { UNION { { Frame(Shapes[sh],
                            [r \in 1..n |->
                                [i \in DOMAIN Shapes[sh] |-> valor(ks[r], Shapes[sh][i])]])
                      : ks \in [1..n -> RowKinds] }
                    : n \in 1..MaxRows }
            : sh \in DOMAIN Shapes }

DiasRemate == (EarliestDia - 1)..(EarliestDia - 1 + MaxDiaSpan)

---------------------------------------------------------------------------
(* Query generation: generar_query_entrenamiento, generar_query_prediccion *)

\* the items a comma-separated SQL list reads in ", ".join(items) placed after
\* a comma of the template: the empty string is one empty item
join(items, vacio) == IF items = <<>> THEN <<vacio>> ELSE items

pivot_vacio == [dia |-> 0, kpi |-> "", alias |-> ""]

\* "MAX(CASE WHEN DIAS_REMATE = {d} THEN {nombre_col_kpi} END) AS {prefijo}{abs(d)}"
\* for d in dias, joined with commas
generar_columnas_pivot_kpi(nombre_col_kpi, prefijo, c) ==
    LET ds == dias(c)
    IN  join([i \in DOMAIN ds |->
                 [dia |-> ds[i], kpi |-> nombre_col_kpi, alias |-> col_name(prefijo, ds[i])]],
             pivot_vacio)

\* "{alias_cte}.{prefijo_col}{abs(d)}" for d in dias, joined with commas
generar_select_columnas(alias_cte, prefijo_col, c) ==
    LET ds == dias(c)
    IN  join([i \in DOMAIN ds |-> alias_cte \o "." \o col_name(prefijo_col, ds[i])], "")

series_kpi ==
    <<"ACUM_OFERTAS", "ACUM_DESCARGASCAV", "ACUM_DESCARGASINSPTOTALES",
      "ACUM_MI", "ACUM_VISITAS_TOTALES", "ACUM_VISITAS_UNICAS">>

series_cte == <<"o", "cav", "insp", "mi", "vt", "vu">>

pivot_blocks_mut_hasta_c(c) ==
    [b \in DOMAIN series_prefijos |->
        [columnas |-> generar_columnas_pivot_kpi(series_kpi[b], series_prefijos[b], c),
         desde |-> EarliestDia,
         hasta |-> c]]

\* the six pivot CTEs: their generated columns and their day filter
\* WHERE DIAS_REMATE BETWEEN -15 AND {dia_remate - 1}
pivot_blocks(c) ==
    [b \in DOMAIN series_prefijos |->
        [columnas |-> generar_columnas_pivot_kpi(series_kpi[b], series_prefijos[b], c),
         desde |-> EarliestDia,
         hasta |-> c - 1]]

\* the column list of the final SELECT
select_final(base, tipo_vpca, c) ==
    <<base \o ".*", "h.HHI_MARCA_REMATE", tipo_vpca \o ".CONCENTRACION_TIPO_VPCA",
      "k.ACUM_DESCARGASCAV", "k.ACUM_DESCARGASINSPTOTALES", "k.ACUM_MI",
      "k.ACUM_VISITAS_TOTALES", "k.ACUM_VISITAS_UNICAS", "k.ACUM_OFERTAS",
      "PROYECCION_BI">>
    \o Flatten([b \in DOMAIN series_prefijos |->
                   generar_select_columnas(series_cte[b], series_prefijos[b], c)])

NoQuery ==
    [tipo |-> "none", dia_remate |-> 0, remid |-> 0, remid_op |-> "",
     dias |-> <<>>, pivots |-> <<>>, select |-> <<>>]

\* generar_query_entrenamiento(dia_remate, remid)
generar_query_entrenamiento(c, remid) ==
    /\ query' = [tipo |-> "entrenamiento", dia_remate |-> c, remid |-> remid,
                 remid_op |-> "<", dias |-> dias(c),
                 pivots |-> pivot_blocks(c), select |-> select_final("v", "tv", c)]
    /\ UNCHANGED <<modelo_file, op, dia_remate, raw, data, data_encoded, X, y, error,
                   fallo, pasos, test, subir_sql, resultados, ruta_excel, df_sql, tabla>>

\* generar_query_prediccion(dia_remate, remid)
generar_query_prediccion(c, remid) ==
    /\ query' = [tipo |-> "prediccion", dia_remate |-> c, remid |-> remid,
                 remid_op |-> "=", dias |-> dias(c),
                 pivots |-> pivot_blocks(c), select |-> select_final("p", "v", c)]
    /\ UNCHANGED <<modelo_file, op, dia_remate, raw, data, data_encoded, X, y, error,
                   fallo, pasos, test, subir_sql, resultados, ruta_excel, df_sql, tabla>>

QueryDias == (EarliestDia - 1)..(EarliestDia - 1 + MaxQuerySpan)

Remids == 1..MaxRemid

---------------------------------------------------------------------------
(* Prediction and result sinks: predecir, guardar_predicciones_excel,      *)
(* preparar_datos_sql, subir_dataframe_sql                                 *)

\* df[name] = values, one per row: a new column goes last
AppendColumnValues(df, name, vals) ==
    Frame(Append(df.columns, name),
          [r \in DOMAIN df.rows |-> Append(df.rows[r], vals[r])])

\* modelo.predict(data_procesada): one finite value per row.  The fitted forest
\* is a deterministic function of the feature row; it is stood in by the count
\* of the row's non-zero numeric cells.
predecir(data_procesada) ==
    [r \in DOMAIN data_procesada.rows |->
        NumCell(Cardinality({j \in DOMAIN data_procesada.rows[r] :
                                /\ data_procesada.rows[r][j].k = "num"
                                /\ data_procesada.rows[r][j].n # 0}))]

fecha_subasta == "2025-12-11"

NoExcel == ""

\* ruta_archivo = f"{ruta_directorio}/Proyecciones_{dia_remate}{postfix}.xlsx"
guardar_predicciones_excel(c, fecha, t) ==
    "Proyecciones/Subasta_" \o fecha \o "/Proyecciones_" \o ToString(c)
        \o (IF t THEN "_test" ELSE "") \o ".xlsx"

cols_final ==
    <<"REMID", "PATENTE", "LOTEID", "TIPO", "MARCA", "MODELO", "AÑO", "COMB",
      "KILOMETRAJE", "MINIMO", "COLOR", "OFERTAS_PREDICHAS_RF", "DIA_REMATE">>

text_cols == <<"PATENTE", "TIPO", "MARCA", "MODELO", "COMB", "COLOR">>

int_cols == <<"REMID", "LOTEID", "AÑO", "KILOMETRAJE", "DIA_REMATE">>

float_cols == <<"MINIMO", "OFERTAS_PREDICHAS_RF">>

pk == <<"REMID", "PATENTE", "LOTEID", "DIA_REMATE">>

\* df_subir["DIA_REMATE"] = int(dia_remate)
asignar_dia_remate(df, c) ==
    IF In("DIA_REMATE", df.columns)
    THEN Frame(df.columns,
               [r \in DOMAIN df.rows |->
                   [i \in DOMAIN df.columns |->
                       IF df.columns[i] = "DIA_REMATE" THEN NumCell(c) ELSE df.rows[r][i]]])
    ELSE AppendColumn(df, "DIA_REMATE", NumCell(c))

\* .astype("Int64") of a coerced value: a number, or <NA> for NaN
astype_Int64(cell) ==
    CASE cell.k = "num" -> cell
      [] cell.k = "na" -> NACell

\* the loops over text_cols, int_cols and float_cols, on one value of column col
\* (.astype(float).round(2) leaves the numbers of the model as they are)
tipificar(col, cell) ==
    IF In(col, text_cols) THEN StrCell(astype_str(cell))
    ELSE IF In(col, int_cols) THEN astype_Int64(to_numeric(cell))
    ELSE IF In(col, float_cols) THEN to_numeric(cell)
    ELSE cell

tipificar_columnas(df) ==
    Frame(df.columns,
          [r \in DOMAIN df.rows |->
              [i \in DOMAIN df.columns |-> tipificar(df.columns[i], df.rows[r][i])]])

\* the values of row r in the columns of subset
clave(df, r, subset) == [k \in DOMAIN subset |-> At(df, r, subset[k])]

\* the rows of df at the given row positions, in that order
TakeRows(df, rs) == Frame(df.columns, [k \in DOMAIN rs |-> df.rows[rs[k]]])

\* if cols_pk_presentes == pk: df_subir[~df_subir.duplicated(subset=pk, keep='last')]
eliminar_duplicados_pk(df) ==
    IF Filter(pk, df.columns) = pk
    THEN TakeRows(df,
            SelectSeq([r \in DOMAIN df.rows |-> r],
                      LAMBDA r : \A q \in (r + 1)..NRows(df) :
                                    clave(df, q, pk) # clave(df, r, pk)))
    ELSE df

\* df_subir.replace([inf, -inf], pd.NA) then df_subir.where(pd.notnull(df_subir), None).
\* A float64 column holds no pd.NA: replace turns a column that has an infinite
\* value into an object column, and only in an object column does where() put
\* None; in a float64 column None is the column's own missing value, NaN, and
\* in an Int64 column it is <NA>.
reemplazar_no_finitos(df) ==
    Frame(df.columns,
          [r \in DOMAIN df.rows |->
              [i \in DOMAIN df.columns |->
                  IF /\ df.rows[r][i].k \in {"inf", "na"}
                     /\ \E q \in DOMAIN df.rows : df.rows[q][i].k = "inf"
                  THEN NoneCell
                  ELSE df.rows[r][i]]])

\* preparar_datos_sql(df, dia_remate)
preparar_datos_sql(df, c) ==
    reemplazar_no_finitos(
        eliminar_duplicados_pk(
            tipificar_columnas(
                SelectColumns(asignar_dia_remate(df, c),
                              Filter(cols_final, asignar_dia_remate(df, c).columns)))))

\* the stored row of row r of df
fila_sql(df, r) ==
    [clave |-> [k \in DOMAIN pk |->
                   IF In(pk[k], df.columns) THEN At(df, r, pk[k]) ELSE NoneCell],
     columnas |-> df.columns,
     valores |-> df.rows[r]]

\* subir_dataframe_sql(df, tabla_destino): INSERT INTO ... VALUES (...) for every
\* row in one transaction.  The table has the primary key (REMID, PATENTE,
\* LOTEID, DIA_REMATE): a row whose key is stored already, repeats in the batch
\* or has a null part is rejected, executemany raises and nothing is committed.
subir_dataframe_sql(t, df) ==
    IF \E r \in DOMAIN df.rows :
          \/ \E f \in DOMAIN t : t[f].clave = fila_sql(df, r).clave
          \/ \E q \in DOMAIN df.rows : q # r /\ fila_sql(df, q).clave = fila_sql(df, r).clave
          \/ \E k \in DOMAIN pk : fila_sql(df, r).clave[k].k \in {"None", "NA", "na"}
    THEN [rechazada |-> TRUE, tabla |-> t]
    ELSE [rechazada |-> FALSE, tabla |-> t \o [r \in DOMAIN df.rows |-> fila_sql(df, r)]]

---------------------------------------------------------------------------
(* The pipelines *)

NoModelo == [existe |-> FALSE, columnas_features |-> <<>>]

\* guardar_modelo(modelo, columnas_features, ruta_modelo): the bundle written
guardar_modelo(columnas_features) ==
    [existe |-> TRUE, columnas_features |-> columnas_features]

cargar_mut_sin_error(file) == [error |-> "none", columnas_features |-> file.columnas_features]

\* cargar_modelo(ruta_modelo): FileNotFoundError when no file is there
cargar_modelo(file) ==
    IF ~file.existe
    THEN [error |-> "FileNotFoundError", columnas_features |-> <<>>]
    ELSE [error |-> "none", columnas_features |-> file.columnas_features]

Init ==
    /\ modelo_file = NoModelo
    /\ op = "idle"
    /\ dia_remate = 0
    /\ raw = EmptyFrame
    /\ data = EmptyFrame
    /\ data_encoded = EmptyFrame
    /\ X = EmptyFrame
    /\ y = <<>>
    /\ error = "none"
    /\ query = NoQuery
    /\ fallo = "none"
    /\ pasos = <<>>
    /\ test = FALSE
    /\ subir_sql = FALSE
    /\ resultados = EmptyFrame
    /\ ruta_excel = NoExcel
    /\ df_sql = EmptyFrame
    /\ tabla = <<>>

\* a caller binds a record set and a cutoff day to the parameters of a pipeline
llamar(df, c) ==
    /\ op = "idle"
    /\ op' = "llamado"
    /\ dia_remate' = c
    /\ raw' = df
    /\ data' = df
    /\ UNCHANGED <<modelo_file, data_encoded, X, y, error, query,
                   fallo, pasos, test, subir_sql, resultados, ruta_excel, df_sql, tabla>>

\* what entrenar_modelo and evaluar_modelo (scikit-learn, matplotlib) can do:
\* return, or raise in one of the two calls
ResultadosEntrenamiento == {"none", "entrenar_modelo", "evaluar_modelo"}

\* the calls entrenar_pipeline_completo makes until it returns or a call raises
pasos_entrenamiento(err, lib) ==
    IF err # "none" THEN <<"preprocesar_datos">>
    ELSE IF lib = "entrenar_modelo" THEN <<"preprocesar_datos", "entrenar_modelo">>
    ELSE IF lib = "evaluar_modelo"
    THEN <<"preprocesar_datos", "entrenar_modelo", "evaluar_modelo">>
    ELSE <<"preprocesar_datos", "entrenar_modelo", "evaluar_modelo", "guardar_modelo">>

bundle_mut_guardar_primero(previo, err, lib, columnas_features) ==
    IF err = "none" THEN guardar_modelo(columnas_features) ELSE previo

\* the file at ruta_modelo after the run: guardar_modelo is the last call,
\* reached only when no earlier call raised
bundle_tras_entrenamiento(previo, err, lib, columnas_features) ==
    IF err = "none" /\ lib = "none" THEN guardar_modelo(columnas_features) ELSE previo

\* entrenar_pipeline_completo(data, dia_remate): preprocesar_datos, then the
\* fit and its evaluation, then guardar_modelo(modelo, columnas_features)
entrenar_pipeline_completo ==
    /\ op = "llamado"
    /\ \E res \in {preprocesar_datos(data, dia_remate)} :
       \E lib \in (IF res.error = "none" THEN ResultadosEntrenamiento ELSE {"none"}) :
           /\ op' = "train"
           /\ data' = res.data
           /\ data_encoded' = res.data_encoded
           /\ X' = res.X
           /\ y' = res.y
           /\ error' = res.error
           /\ fallo' = lib
           /\ pasos' = pasos_entrenamiento(res.error, lib)
           /\ modelo_file' =
                 bundle_tras_entrenamiento(modelo_file, res.error, lib, res.X.columns)
    /\ UNCHANGED <<dia_remate, raw, query,
                   test, subir_sql, resultados, ruta_excel, df_sql, tabla>>

\* the values of (test, subir_sql)
Banderas == [test : BOOLEAN, subir_sql : BOOLEAN]

\* python main_inference.py ... --test
BanderasTest == {b \in Banderas : b.test /\ b.subir_sql}

sube_mut_ignora_test(b) == b.subir_sql

\* if subir_sql and not test
sube(b) == b.subir_sql /\ ~b.test

\* the calls pipeline_inferencia_completo makes until it returns or a call raises
pasos_inferencia(err, b) ==
    IF err # "none" THEN <<"cargar_modelo">>
    ELSE <<"cargar_modelo", "preprocesar_datos_inferencia", "predecir",
           "guardar_predicciones_excel">>
         \o (IF sube(b) THEN <<"subir_predicciones_sql">> ELSE <<>>)

\* pipeline_inferencia_completo(data_raw, dia_remate, fecha_subasta, remid, test,
\* subir_sql): cargar_modelo, preprocesar_datos_inferencia against the loaded
\* columnas_features, predecir, the spreadsheet, and the upload when asked
pipeline_inferencia_completo(banderas) ==
    /\ op = "llamado"
    /\ \E modelo_data \in {cargar_modelo(modelo_file)} :
       \E b \in banderas :
           /\ op' = "infer"
           /\ test' = b.test
           /\ subir_sql' = b.subir_sql
           /\ error' = modelo_data.error
           /\ pasos' = pasos_inferencia(modelo_data.error, b)
           /\ IF modelo_data.error # "none"
              THEN /\ data_encoded' = EmptyFrame
                   /\ X' = EmptyFrame
                   /\ y' = <<>>
                   /\ fallo' = "none"
                   /\ UNCHANGED <<data, resultados, ruta_excel, df_sql, tabla>>
              ELSE \E res \in {preprocesar_datos_inferencia(
                                   data, modelo_data.columnas_features, dia_remate)} :
                   \E data_raw \in {AppendColumnValues(res.data, "OFERTAS_PREDICHAS_RF",
                                                       predecir(res.X))} :
                   \E subido \in {IF sube(b)
                                  THEN preparar_datos_sql(data_raw, dia_remate)
                                  ELSE EmptyFrame} :
                   \E carga \in {IF sube(b)
                                 THEN subir_dataframe_sql(tabla, subido)
                                 ELSE [rechazada |-> FALSE, tabla |-> tabla]} :
                       /\ data' = res.data
                       /\ data_encoded' = res.data_encoded
                       /\ X' = res.X
                       /\ y' = res.y
                       /\ resultados' = data_raw
                       /\ ruta_excel' =
                             guardar_predicciones_excel(dia_remate, fecha_subasta, b.test)
                       /\ df_sql' = subido
                       /\ tabla' = carga.tabla
                       /\ fallo' = IF carga.rechazada THEN "subir_dataframe_sql" ELSE "none"
    /\ UNCHANGED <<modelo_file, dia_remate, raw, query>>

\* the pipeline returns (or its exception propagates) and the process ends:
\* the file at ruta_modelo and the table outlive the run
terminar ==
    /\ op \in {"train", "infer"}
    /\ op' = "idle"
    /\ dia_remate' = 0
    /\ raw' = EmptyFrame
    /\ data' = EmptyFrame
    /\ data_encoded' = EmptyFrame
    /\ X' = EmptyFrame
    /\ y' = <<>>
    /\ error' = "none"
    /\ fallo' = "none"
    /\ pasos' = <<>>
    /\ test' = FALSE
    /\ subir_sql' = FALSE
    /\ resultados' = EmptyFrame
    /\ ruta_excel' = NoExcel
    /\ df_sql' = EmptyFrame
    /\ UNCHANGED <<modelo_file, query, tabla>>

\* training runs and inference runs in test mode
Next ==
    \/ \E df \in RawFrames, c \in DiasRemate : llamar(df, c)
    \/ entrenar_pipeline_completo
    \/ pipeline_inferencia_completo(BanderasTest)
    \/ terminar

Spec == Init /\ [][Next]_vars

\* the row kinds of the record sets of the runs that may upload
SinkFilas == {<<1>>, <<2>>, <<1, 2>>, <<1, 3>>, <<2, 3>>}

SinkShape == <<"REMID", "PATENTE", "LOTEID", "MARCA", "KILOMETRAJE", "MINIMO", "OFERTAS">>

SinkFrames ==
    { Frame(SinkShape,
            [r \in DOMAIN ks |-> [i \in DOMAIN SinkShape |-> valor(ks[r], SinkShape[i])]])
      : ks \in SinkFilas }

SinkDias == {EarliestDia + 2}

NextSink ==
    \/ \E df \in SinkFrames, c \in SinkDias : llamar(df, c)
    \/ entrenar_pipeline_completo
    \/ pipeline_inferencia_completo(Banderas)
    \/ terminar

\* all runs, uploads included, over a few record sets
SpecSink == Init /\ [][NextSink]_vars

NextQuery ==
    \E c \in QueryDias, remid \in Remids :
        \/ generar_query_entrenamiento(c, remid)
        \/ generar_query_prediccion(c, remid)

\* the query generators alone, over a wider range of cutoff days
SpecQuery == Init /\ [][NextQuery]_vars

---------------------------------------------------------------------------
(* Properties *)

\* a run whose preprocessing completed
TrainOk == op = "train" /\ error = "none"
InferOk == op = "infer" /\ error = "none"

\* C1: whatever record set and cutoff day an inference run gets and whatever
\* FeatureSchema the bundle holds, the aligner returns a frame whose column-name
\* sequence is the FeatureSchema exactly (membership, order, length), and with a
\* bundle on disk the aligner does not fail.
C1_AlignmentInvariant ==
    op = "infer" =>
        /\ modelo_file.existe => error = "none"
        /\ error = "none" =>
              /\ X.columns = modelo_file.columnas_features
              /\ \A r \in DOMAIN X.rows : Len(X.rows[r]) = Len(modelo_file.columnas_features)

\* an inference run whose encoding produced an indicator the schema lacks, and
\* lacks a column the schema has
C1_Witness ==
    /\ InferOk
    /\ modelo_file.columnas_features # <<>>
    /\ \E i \in DOMAIN data_encoded.columns :
          ~In(data_encoded.columns[i], modelo_file.columnas_features)
    /\ \E j \in DOMAIN modelo_file.columnas_features :
          ~In(modelo_file.columnas_features[j], data_encoded.columns)

\* C2 (as claimed): after a training run every name of the fixed candidate list
\* (base numeric, KPI accumulators, windowed series of the cutoff) is a column
\* of X, constant 0.0 when the encoded frame lacked it.
C2_FullCandidateList ==
    TrainOk =>
        \A k \in DOMAIN num_vars(dia_remate) :
            /\ In(num_vars(dia_remate)[k], X.columns)
            /\ ~In(num_vars(dia_remate)[k], data_encoded.columns) =>
                  \A r \in DOMAIN X.rows : At(X, r, num_vars(dia_remate)[k]) = NumCell(0)

\* C3 (as claimed): the X and the FeatureSchema a training run returns contain
\* no column name twice.
C3_NoDuplicateColumns ==
    TrainOk => NoDuplicates(X.columns) /\ NoDuplicates(modelo_file.columnas_features)

\* C4: a training run fails with the schema error (ValueError) exactly when the
\* record set has no OFERTAS column; it then returns no X, y or FeatureSchema;
\* with the column present it returns them, one y entry per row.
C4_TargetMissing ==
    op = "train" =>
        /\ error = "ValueError" <=> ~In("OFERTAS", raw.columns)
        /\ error # "none" => X = EmptyFrame /\ y = <<>>
        /\ In("OFERTAS", raw.columns) => error = "none" /\ Len(y) = NRows(raw)

\* a training run on a record set without the target
C4_Witness ==
    op = "train" /\ error = "ValueError" /\ ~In("OFERTAS", raw.columns) /\ NRows(raw) > 0

\* the columns of the encoded frame that are neither identifiers nor the target
RemainingEncoded == FilterOut(data_encoded.columns, id_cols \o <<"OFERTAS">>)

\* C5 (as claimed): the columns of X are the candidate columns in declared order
\* (base numeric, KPI accumulators, windowed series) followed by all remaining
\* columns in the order the encoding emitted them.
C5_ColumnOrder ==
    TrainOk =>
        X.columns = Filter(num_vars(dia_remate), RemainingEncoded)
                    \o FilterOut(RemainingEncoded, num_vars(dia_remate))

\* C6: in X', a FeatureSchema column absent from the encoded inference frame is
\* 0.0 in every row, an encoded column outside the FeatureSchema is absent, a
\* column present in both keeps the encoded values row by row, the rows are
\* those of the record set, and no error is raised.
C6_ReindexPolicy ==
    (op = "infer" /\ modelo_file.existe) =>
        /\ error = "none"
        /\ NRows(X) = NRows(raw)
        /\ \A r \in DOMAIN X.rows : \A j \in DOMAIN X.columns :
              IF In(X.columns[j], data_encoded.columns)
              THEN X.rows[r][j] = At(data_encoded, r, X.columns[j])
              ELSE X.rows[r][j] = NumCell(0)
        /\ \A i \in DOMAIN data_encoded.columns :
              ~In(data_encoded.columns[i], modelo_file.columnas_features) =>
                  ~In(data_encoded.columns[i], X.columns)

\* an inference run with a padded column, a dropped column and a kept column
C6_Witness ==
    /\ InferOk
    /\ \E j \in DOMAIN X.columns : ~In(X.columns[j], data_encoded.columns)
    /\ \E j \in DOMAIN X.columns :
          /\ In(X.columns[j], data_encoded.columns)
          /\ \E r \in DOMAIN X.rows : X.rows[r][j] # NumCell(0)
    /\ \E i \in DOMAIN data_encoded.columns :
          ~In(data_encoded.columns[i], modelo_file.columnas_features)

\* the aliases of the pivot block of series b
Aliases(b) == [i \in DOMAIN query.pivots[b].columnas |-> query.pivots[b].columnas[i].alias]

C8_NamesInjective ==
    (query.tipo # "none" /\ query.dias # <<>>) =>
        \A b \in DOMAIN query.pivots : NoDuplicates(Aliases(b))

\* C9 (as claimed): for a cutoff day c <= -15 the generated query has no empty
\* entry in any pivot or select column list.
C9_NoEmptyEntry ==
    (query.tipo # "none" /\ query.dia_remate <= -15) =>
        /\ \A b \in DOMAIN query.pivots : ~In(pivot_vacio, query.pivots[b].columnas)
        /\ ~In("", query.select)

\* the normalized text of a raw categorical value
Stripped(cell) == strip(astype_str(cell))

\* C10: after the categorical loop of either builder, each of the nine
\* attributes is a column of the caller's frame; an attribute the record set
\* lacked is "OTRO" in every row; a present one holds the raw value as text,
\* stripped, or "OTRO" when that is empty; no value is empty or has
\* surrounding whitespace; the row count is unchanged.
C10_CategoricalNormalization ==
    (op \in {"train", "infer"} /\ error # "FileNotFoundError") =>
        /\ NRows(data) = NRows(raw)
        /\ \A a \in DOMAIN categorical_vars : \A r \in DOMAIN data.rows :
              /\ In(categorical_vars[a], data.columns)
              /\ LET v == At(data, r, categorical_vars[a])
                 IN  /\ v.k = "str"
                     /\ v.s # <<>>
                     /\ Head(v.s) # " "
                     /\ v.s[Len(v.s)] # " "
                     /\ IF In(categorical_vars[a], raw.columns)
                        THEN LET t == Stripped(At(raw, r, categorical_vars[a]))
                             IN  v.s = IF t = <<>> THEN <<"O", "T", "R", "O">> ELSE t
                        ELSE v.s = <<"O", "T", "R", "O">>

\* a run on a record set without COLOR whose MARCA has a whitespace-only value
\* and a value with trailing whitespace
C10_Witness ==
    /\ op \in {"train", "infer"} /\ error # "FileNotFoundError"
    /\ ~In("COLOR", raw.columns)
    /\ \E r \in DOMAIN raw.rows :
          At(raw, r, "MARCA").s # <<>> /\ Stripped(At(raw, r, "MARCA")) = <<>>
    /\ \E r \in DOMAIN raw.rows :
          Stripped(At(raw, r, "MARCA")) \notin {<<>>, At(raw, r, "MARCA").s}

\* the normalized values attribute a takes in the caller's frame
Valores(a) == {At(data, r, a).s : r \in DOMAIN data.rows}

\* the smallest label of a set of labels in sorted order
Menor(S) == CHOOSE v \in S : \A w \in S \ {v} : text_lt(v, w)

\* the positions of data_encoded that hold indicator columns: those after the
\* columns of the frame that are not categorical attributes
Indicadores ==
    (Len(FilterOut(data.columns, categorical_vars)) + 1)..Len(data_encoded.columns)

\* C11: after the encoding of either builder, an attribute with k >= 1 distinct
\* normalized values has exactly k-1 indicator columns, named
\* attribute_category, none for its smallest label; the indicator attribute_v
\* of a row is 1 exactly when the row's normalized value is v; the row count
\* is preserved; an attribute with a single value has no indicator column.
C11_OneHotReference ==
    (op \in {"train", "infer"} /\ error # "FileNotFoundError") =>
        \A ind \in {Indicadores} :
            /\ NRows(data_encoded) = NRows(raw)
            /\ \A a \in DOMAIN categorical_vars :
               \A vals \in {Valores(categorical_vars[a])} :
               \A menor \in {Menor(vals)} :
               \A propios \in {{j \in ind : \E v \in vals :
                                   data_encoded.columns[j] = dummy_name(categorical_vars[a], v)}} :
                  /\ Cardinality(propios) = Cardinality(vals) - 1
                  /\ \A j \in propios :
                        data_encoded.columns[j] # dummy_name(categorical_vars[a], menor)
                  /\ \A v \in vals \ {menor} :
                        \E j \in propios :
                            /\ data_encoded.columns[j] = dummy_name(categorical_vars[a], v)
                            /\ \A r \in DOMAIN data_encoded.rows :
                                  data_encoded.rows[r][j] =
                                      NumCell(IF At(data, r, categorical_vars[a]).s = v
                                              THEN 1 ELSE 0)
                  /\ Cardinality(vals) = 1 => propios = {}
            /\ \A esperados \in {UNION {{dummy_name(categorical_vars[a], v) :
                                              v \in Valores(categorical_vars[a])
                                                    \ {Menor(Valores(categorical_vars[a]))}} :
                                            a \in DOMAIN categorical_vars}} :
                  \A j \in ind : data_encoded.columns[j] \in esperados

\* a run whose MARCA has two distinct values and whose COLOR was synthesized
C11_Witness ==
    /\ op \in {"train", "infer"} /\ error # "FileNotFoundError"
    /\ Cardinality(Valores("MARCA")) = 2
    /\ ~In("COLOR", raw.columns)
    /\ Valores("COLOR") = {OTRO}
    /\ \E j \in Indicadores : data_encoded.columns[j] = "MARCA_B"

\* a value pd.to_numeric converts: a number, or a text that reads as one
Convertible(cell) ==
    \/ cell.k = "num"
    \/ cell.k = "str" /\ strip(cell.s) # <<>>
                      /\ \A i \in DOMAIN strip(cell.s) : IsDigit(strip(cell.s)[i])

\* the numeric value of a convertible value
ValorNumerico(cell) == IF cell.k = "num" THEN cell.n ELSE nat_of_digits(strip(cell.s), 0)

\* C12: after the numeric loop of either builder the frame has the columns the
\* encoding emitted, none created; in each column of the numeric list of the
\* cutoff that is present, a missing or non-convertible value is 0.0 and a
\* convertible one keeps its numeric value; a column outside the list is
\* unchanged; the loop raises nothing.
C12_NumericCoercion ==
    (op \in {"train", "infer"} /\ error # "FileNotFoundError") =>
        \A pre \in {get_dummies(data, categorical_vars)} :
        \A nv \in {num_vars(dia_remate)} :
        \A listed \in {{nv[k] : k \in DOMAIN nv}} :
            /\ error \in {"none", "ValueError"}
            /\ data_encoded.columns = pre.columns
            /\ NRows(data_encoded) = NRows(pre)
            /\ \A n \in listed : ~In(n, pre.columns) => ~In(n, data_encoded.columns)
            /\ \A r \in DOMAIN pre.rows : \A i \in DOMAIN pre.columns :
                  IF pre.columns[i] \in listed
                  THEN data_encoded.rows[r][i] =
                          NumCell(IF Convertible(pre.rows[r][i])
                                  THEN ValorNumerico(pre.rows[r][i])
                                  ELSE 0)
                  ELSE data_encoded.rows[r][i] = pre.rows[r][i]

\* a run whose KILOMETRAJE holds an empty string and a text that reads as a
\* number, whose MI14 is in the numeric list, and that lacks the listed AÑO
C12_Witness ==
    /\ op \in {"train", "infer"} /\ error # "FileNotFoundError"
    /\ In("KILOMETRAJE", raw.columns) /\ In("MI14", raw.columns)
    /\ In("MI14", num_vars(dia_remate))
    /\ \E r \in DOMAIN raw.rows :
          /\ At(raw, r, "KILOMETRAJE") = StrCell(<<>>)
          /\ At(data_encoded, r, "KILOMETRAJE") = NumCell(0)
    /\ \E r \in DOMAIN raw.rows :
          /\ At(raw, r, "KILOMETRAJE") = StrCell(<<" ", "7">>)
          /\ At(data_encoded, r, "KILOMETRAJE") = NumCell(7)
    /\ ~In("AÑO", data_encoded.columns)
    /\ \E r \in DOMAIN raw.rows : At(data_encoded, r, "PATENTE").k = "str"

\* C13: after a run of either builder, normalizing the caller's frame again
\* changes nothing, and normalizing and expanding the expanded frame again
\* gives the same columns in the same order with the same values in every row;
\* so does expanding the frame whose values are already normalized.
C13_NormalizerIdempotent ==
    (op \in {"train", "infer"} /\ error # "FileNotFoundError") =>
        \A once \in {get_dummies(data, categorical_vars)} :
            /\ normalizar_categoricas(data) = data
            /\ get_dummies(normalizar_categoricas(data), categorical_vars) = once
            /\ get_dummies(normalizar_categoricas(once), categorical_vars) = once

\* a run whose first normalization changed values (a whitespace-only MARCA
\* became "OTRO", a padded one was stripped) and whose expansion emitted an
\* indicator
C13_Witness ==
    /\ op \in {"train", "infer"} /\ error # "FileNotFoundError"
    /\ \E r \in DOMAIN raw.rows :
          At(raw, r, "MARCA") = StrCell(<<" ">>) /\ At(data, r, "MARCA") = StrCell(OTRO)
    /\ \E r \in DOMAIN raw.rows :
          At(raw, r, "MARCA") = StrCell(<<"B", " ">>) /\ At(data, r, "MARCA") = StrCell(<<"B">>)
    /\ In("MARCA_OTRO", data_encoded.columns)
    /\ data # raw

\* C14: after a training run on a record set that has the target column, y has
\* one entry per input row, in row order, equal to the numeric value of
\* OFERTAS or 0.0 when it is missing or not numeric; X and the FeatureSchema
\* contain none of REMID, PATENTE, LOTEID, OFERTAS; X has as many rows as y.
C14_OutputPartition ==
    (op = "train" /\ In("OFERTAS", raw.columns)) =>
        /\ error = "none"
        /\ Len(y) = NRows(raw)
        /\ \A r \in DOMAIN raw.rows :
              y[r] = NumCell(IF Convertible(At(raw, r, "OFERTAS"))
                             THEN ValorNumerico(At(raw, r, "OFERTAS"))
                             ELSE 0)
        /\ \A n \in {"REMID", "PATENTE", "LOTEID", "OFERTAS"} :
              ~In(n, X.columns) /\ ~In(n, modelo_file.columnas_features)
        /\ NRows(X) = Len(y)
        /\ \A r \in DOMAIN X.rows : Len(X.rows[r]) = Len(X.columns)

\* a training run on a record set with the identifiers and a target holding a
\* number, a missing value or a text that is no number
C14_Witness ==
    /\ TrainOk
    /\ In("REMID", raw.columns) /\ In("PATENTE", raw.columns) /\ In("LOTEID", raw.columns)
    /\ NRows(raw) = 2
    /\ At(raw, 1, "OFERTAS") = NumCell(3) /\ y[1] = NumCell(3)
    /\ At(raw, 2, "OFERTAS").k # "num" /\ y[2] = NumCell(0)
    /\ X.columns # <<>>

\* C15: over any sequence of runs, a training run writes the bundle exactly
\* once, as its last call, when preprocessing, training and evaluation all
\* returned, and the list written is the column list of the X the regressor
\* was fitted on; a training run in which a call raised leaves the file as it
\* was; an inference run calls cargar_modelo first and leaves the file as it
\* was; nothing else changes the file.
C15_SchemaLifecycle ==
    [][ /\ (op = "llamado" /\ op' = "train") =>
              IF error' = "none" /\ fallo' = "none"
              THEN /\ modelo_file' = [existe |-> TRUE, columnas_features |-> X'.columns]
                   /\ pasos' = <<"preprocesar_datos", "entrenar_modelo",
                                 "evaluar_modelo", "guardar_modelo">>
              ELSE /\ modelo_file' = modelo_file
                   /\ ~In("guardar_modelo", pasos')
        /\ (op = "llamado" /\ op' = "infer") =>
              /\ modelo_file' = modelo_file
              /\ pasos'[1] = "cargar_modelo"
              /\ ~In("guardar_modelo", pasos')
              /\ error' = "none" => X'.columns = modelo_file.columnas_features
        /\ modelo_file' # modelo_file => op = "llamado" /\ op' = "train"
      ]_vars

\* an inference run that read a bundle a training run wrote, after a training
\* run in between could not have been the writer of another list
C15_Witness ==
    /\ op = "infer" /\ error = "none"
    /\ modelo_file.existe /\ modelo_file.columnas_features # <<>>
    /\ X.columns = modelo_file.columnas_features
    /\ pasos[1] = "cargar_modelo"

\* C16: when no bundle is at the path, the inference run ends with the
\* not-found error of cargar_modelo, having made no other call: the caller's
\* frame is not preprocessed, there are no predictions, no spreadsheet and no
\* upload; with a bundle at the path the error does not occur.
C16_ArtifactNotFound ==
    op = "infer" =>
        IF modelo_file.existe
        THEN error # "FileNotFoundError"
        ELSE /\ error = "FileNotFoundError"
             /\ pasos = <<"cargar_modelo">>
             /\ data = raw
             /\ data_encoded = EmptyFrame /\ X = EmptyFrame
             /\ resultados = EmptyFrame
             /\ ruta_excel = NoExcel
             /\ df_sql = EmptyFrame
             /\ tabla = <<>>

\* an inference run asked to upload, on a record set the normalizer would
\* change, with no bundle at the path
C16_Witness ==
    /\ op = "infer" /\ ~modelo_file.existe /\ error = "FileNotFoundError"
    /\ subir_sql /\ ~test
    /\ \E r \in DOMAIN raw.rows : At(raw, r, "MARCA") = StrCell(<<"B", " ">>)

\* C17: an inference run that reaches the sinks with test = true makes no
\* upload, whatever subir_sql is, leaves the table as it was and writes the
\* spreadsheet Proyecciones_{dia_remate}_test.xlsx; with test = false the file
\* name has no suffix and the upload is made exactly when subir_sql is true,
\* after the spreadsheet was written.
C17_TestFlag ==
    [][ (op = "llamado" /\ op' = "infer" /\ error' = "none") =>
            /\ test' =>
                  /\ ~In("subir_predicciones_sql", pasos')
                  /\ df_sql' = EmptyFrame
                  /\ tabla' = tabla
                  /\ ruta_excel' = "Proyecciones/Subasta_2025-12-11/Proyecciones_"
                                       \o ToString(dia_remate) \o "_test.xlsx"
            /\ ~test' =>
                  /\ ruta_excel' = "Proyecciones/Subasta_2025-12-11/Proyecciones_"
                                       \o ToString(dia_remate) \o ".xlsx"
                  /\ subir_sql' <=> In("subir_predicciones_sql", pasos')
                  /\ subir_sql' => /\ pasos'[Len(pasos')] = "subir_predicciones_sql"
                                   /\ pasos'[Len(pasos') - 1] = "guardar_predicciones_excel"
                                   /\ df_sql' # EmptyFrame
                  /\ ~subir_sql' => df_sql' = EmptyFrame /\ tabla' = tabla
      ]_vars

\* a test run with subir_sql = true that wrote the suffixed spreadsheet and
\* uploaded nothing
C17_Witness ==
    /\ op = "infer" /\ error = "none" /\ test /\ subir_sql
    /\ ruta_excel = "Proyecciones/Subasta_2025-12-11/Proyecciones_-13_test.xlsx"
    /\ df_sql = EmptyFrame
    /\ resultados # EmptyFrame


\* the frame preparar_datos_sql has before it drops duplicates
antes_de_duplicados(df, c) ==
    tipificar_columnas(
        SelectColumns(asignar_dia_remate(df, c),
                      Filter(cols_final, asignar_dia_remate(df, c).columns)))

\* the last row of df with the key of row r
ultima(df, r) ==
    CHOOSE p \in DOMAIN df.rows :
        /\ clave(df, p, pk) = clave(df, r, pk)
        /\ \A q \in DOMAIN df.rows : clave(df, q, pk) = clave(df, r, pk) => q <= p

\* a run that handed a frame to the upload
Subio == op = "infer" /\ In("subir_predicciones_sql", pasos)

\* C18: in the frame handed to the upload no two rows share the primary key
\* (REMID, PATENTE, LOTEID, DIA_REMATE), the row kept for a key of the input is
\* its last occurrence in input order, and no cell holds +inf, -inf or NaN:
\* each of them has been replaced by null.
C18_SinkPreparation ==
    Subio =>
        \A pre \in {antes_de_duplicados(resultados, dia_remate)} :
            /\ \A r, q \in DOMAIN df_sql.rows :
                  r # q => clave(df_sql, r, pk) # clave(df_sql, q, pk)
            /\ \A r \in DOMAIN pre.rows :
                  \E q \in DOMAIN df_sql.rows :
                      /\ clave(df_sql, q, pk) = clave(pre, r, pk)
                      /\ \A i \in DOMAIN pre.columns :
                            \/ df_sql.rows[q][i] = pre.rows[ultima(pre, r)][i]
                            \/ pre.rows[ultima(pre, r)][i].k \in {"na", "inf"}
            /\ \A r \in DOMAIN df_sql.rows, i \in DOMAIN df_sql.columns :
                  df_sql.rows[r][i].k \notin {"na", "inf"}


C20_ReferenceStability ==
    InferOk =>
        \A a \in DOMAIN categorical_vars :
            \A vals \in {Valores(categorical_vars[a])} :
                vals # {} =>
                    ~In(dummy_name(categorical_vars[a], Menor(vals)),
                        modelo_file.columnas_features)


\* the entries of the pivot block of series b that are generated columns
Pivotes(b) == SelectSeq(query.pivots[b].columnas, LAMBDA e : e # pivot_vacio)

\* the entries of the final SELECT after the fixed ones that name a column
SelectSeries == SelectSeq(SubSeq(query.select, 11, Len(query.select)), LAMBDA e : e # "")

Entrenamientos ==
    {t \in SinkFrames :
        \A res \in {preprocesar_datos(t, dia_remate)} :
            res.error = "none" /\ res.X.columns = modelo_file.columnas_features}

\* C22: when the stored FeatureSchema comes from a training record set that
\* holds a record r, an inference record set that holds r, aligned for the
\* same cutoff day, gives r in every column of the schema the value r has in
\* the training matrix X; and an indicator attribute_v of the schema is 1 for
\* a row exactly when the row's normalized value of the attribute is v.
C22_RowEquivalence ==
    InferOk =>
        /\ \A t \in Entrenamientos :
              \A res \in {preprocesar_datos(t, dia_remate)} :
                  \A i \in DOMAIN t.rows, j \in DOMAIN raw.rows :
                      t.rows[i] = raw.rows[j] => res.X.rows[i] = X.rows[j]
        /\ \A a \in DOMAIN categorical_vars :
              \A r \in DOMAIN data.rows :
                  \A k \in DOMAIN X.columns :
                      X.columns[k] = dummy_name(categorical_vars[a],
                                                At(data, r, categorical_vars[a]).s)
                          => X.rows[r][k] = NumCell(1)


\* a candidate-feature column name: a base numeric, a KPI accumulator or a
\* windowed series of some cutoff day
Candidata(col) == \E c \in DiasRemate : In(col, num_vars(c))

\* C23: for every inference record set, every FeatureSchema a training run
\* stored and every inference cutoff day, the training one or another, every
\* cell of X' in a candidate-feature column of the schema is a number, never
\* a missing value or a text.
C23_NoMissingCell ==
    InferOk =>
        \A k \in DOMAIN X.columns :
            Candidata(X.columns[k]) =>
                \A r \in DOMAIN X.rows : X.rows[r][k].k = "num"


\* C24: preprocesar_datos and preprocesar_datos_inferencia add no column to
\* and rewrite no value of the caller's record set, and the frame the
\* inference pipeline exports is the record set as received plus the one
\* column OFERTAS_PREDICHAS_RF, with one prediction per row.
C24_InputUnchanged ==
    /\ (op \in {"train", "infer"} /\ error # "FileNotFoundError") => data = raw
    /\ InferOk =>
          /\ resultados.columns = raw.columns \o <<"OFERTAS_PREDICHAS_RF">>
          /\ NRows(resultados) = NRows(raw)
          /\ \A r \in DOMAIN raw.rows :
                /\ SubSeq(resultados.rows[r], 1, Len(raw.columns)) = raw.rows[r]
                /\ resultados.rows[r][Len(resultados.columns)].k = "num"

=============================================================================
